---- MODULE Spec2Model ----
(***************************************************************************)
(* Task Management API (task-management-api/app): the tasks table, the     *)
(* CRUD functions of app/crud/task.py and the endpoints of                 *)
(* app/api/v1/endpoints/tasks.py.  Every request is a small process: it    *)
(* is validated and started, then executes its database statements one at  *)
(* a time (each await of the code is a step), then answers.                *)
(***************************************************************************)
EXTENDS Integers, Sequences, FiniteSets, TLC

\* ---------------------------------------------------------------- bounds
MaxRequests == 3
MaxClock == 1
MaxTaskId == 2
NumClients == 2

Clients == 1..NumClients

\* the number of rule matches of one scan run
MaxMatches == 2

\* the number of candidate files of one scan run
MaxFiles == 2

\* the number of advisories in the output of one audit tool
MaxAdvisories == 2

\* ------------------------------------------------------ program constants
DEFAULT_SKIP == 0
DEFAULT_LIMIT == 100
MAX_LIMIT == 1000
TITLE_MAX_LENGTH == 200
DESCRIPTION_MAX_LENGTH == 2000

HTTP_200_OK == 200
HTTP_201_CREATED == 201
HTTP_204_NO_CONTENT == 204
HTTP_404_NOT_FOUND == 404
HTTP_422_UNPROCESSABLE_ENTITY == 422
HTTP_500_INTERNAL_SERVER_ERROR == 500

TaskStatus == {"pending", "in_progress", "completed"}
TaskPriority == {"low", "medium", "high"}

\* ----------------------------------------------------------------- values
\* Python None for an enum value and for a string value; an optional query
\* parameter or query result is a sequence of length 0 (None) or 1.
None == "None"
NoneStr == << <<"None", 0>> >>
\* Task.id before the INSERT (None)
NoId == 0

\* A string is a sequence of runs <<character, count>>.
Str(ch, n) == << <<ch, n>> >>

RECURSIVE StrLen(_)
StrLen(s) == IF s = << >> THEN 0 ELSE Head(s)[2] + StrLen(Tail(s))

RECURSIVE lstrip(_)
lstrip(s) ==
    IF s = << >> THEN s
    ELSE IF Head(s)[1] = " " THEN lstrip(Tail(s)) ELSE s

RECURSIVE rstrip(_)
rstrip(s) ==
    IF s = << >> THEN s
    ELSE IF s[Len(s)][1] = " " THEN rstrip(SubSeq(s, 1, Len(s) - 1)) ELSE s

\* Variant: only the leading whitespace is removed.
strip_leading(s) == lstrip(s)

strip(s) == rstrip(lstrip(s))

Min(a, b) == IF a < b THEN a ELSE b
Max(a, b) == IF a > b THEN a ELSE b

\* ------------------------------------------------------------------ state
VARIABLES
    store,      \* the tasks table: id -> row
    nextId,     \* the primary-key sequence of the tasks table
    clock,      \* datetime.utcnow(), non-decreasing
    nreq,       \* number of requests received so far
    pc,         \* per client: position of its request handler
    req,        \* per client: the request being handled
    loc,        \* per client: the handler's local variables
    resp,       \* per client: the response of the finished request
    pre,        \* per client: the tasks table when the request arrived
    issued,     \* history: the ids answered by POST with 201, in order
    deleted,    \* history: the ids for which DELETE answered 204
    scan        \* the scanner scripts' run (ScanRun): what is left to do,
                \* the findings and the counters

vars == <<store, nextId, clock, nreq, pc, req, loc, resp, pre, issued, deleted,
          scan>>

NoReq == [op |-> "none"]
NoLoc == [at |-> "none"]
NoResp == [code |-> 0]
NoPre == << >>
\* no scan is running
NoScan == [matches |-> << >>, raw |-> << >>, findings |-> << >>]

\* ------------------------------------------------------------------ inputs
TitleA == Str("a", 1)
TitleB == Str("b", 1)
TitlePadded == <<(<<" ", 1>>), (<<"a", 2>>), (<<" ", 1>>)>>
TitleBlank == Str(" ", 2)
DescD == Str("d", 3)

CreateBodies ==
    { [title |-> TitleA],
      [title |-> TitleB, description |-> DescD,
       status |-> "completed", priority |-> "high"],
      [title |-> TitlePadded, status |-> "pending", priority |-> "high"],
      [title |-> TitleBlank, priority |-> "high"] }

ConcurrentBodies == { [title |-> TitleA], [title |-> TitleBlank] }

UpdateBodies ==
    { [x \in {} |-> None],
      [title |-> TitleB],
      [description |-> NoneStr],
      [status |-> "completed"],
      [priority |-> "high"],
      [title |-> TitlePadded, status |-> "pending", priority |-> "medium"],
      [title |-> NoneStr],
      [title |-> TitleBlank, status |-> "completed"] }

\* the bodies of the validation tests: titles and descriptions at and beyond
\* the length limits, values outside the enums, a missing and a null title
TitleEmpty == << >>
TitleMax == Str("a", TITLE_MAX_LENGTH)
TitleTooLong == Str("a", TITLE_MAX_LENGTH + 1)
TitlePaddedMax == <<(<<" ", 1>>), (<<"a", TITLE_MAX_LENGTH - 2>>), (<<" ", 1>>)>>
TitlePaddedTooLong == <<(<<" ", 1>>), (<<"a", TITLE_MAX_LENGTH - 1>>), (<<" ", 1>>)>>
TitleInnerSpace == <<(<<"a", 1>>), (<<" ", 1>>), (<<"b", 1>>)>>
DescMax == Str("d", DESCRIPTION_MAX_LENGTH)
DescTooLong == Str("d", DESCRIPTION_MAX_LENGTH + 1)

ValidationCreateBodies ==
    { [title |-> TitleEmpty],
      [title |-> TitleBlank],
      [title |-> TitleTooLong],
      [title |-> TitleMax],
      [title |-> TitlePaddedMax],
      [title |-> TitlePaddedTooLong],
      [title |-> TitleInnerSpace],
      [title |-> TitleA, description |-> DescTooLong],
      [title |-> TitleA, description |-> DescMax],
      [title |-> TitleA, status |-> "invalid_status"],
      [title |-> TitleA, priority |-> "invalid_priority"],
      [description |-> DescD],
      [title |-> NoneStr] }

ValidationUpdateBodies ==
    { [title |-> TitleEmpty],
      [title |-> TitleBlank],
      [title |-> TitleTooLong],
      [title |-> TitleMax],
      [title |-> TitlePaddedMax],
      [title |-> TitlePaddedTooLong],
      [title |-> TitlePadded],
      [description |-> DescTooLong],
      [description |-> DescMax],
      [status |-> "invalid_status"],
      [priority |-> "invalid_priority"],
      [title |-> TitleB, description |-> DescTooLong] }

\* the bodies of concurrent PUT requests: a title each
ConcurrentUpdateBodies ==
    { [title |-> TitleA], [title |-> TitleB], [title |-> TitleMax] }

\* update bodies that set a required column explicitly to null
NullUpdateBodies ==
    { [title |-> NoneStr], [status |-> None], [priority |-> None] }

TaskIds == 1..MaxTaskId
Skips == {<< >>, <<1>>, <<2>>}
Limits == {<< >>, <<0>>, <<1>>, <<MAX_LIMIT>>}
StatusFilters == {<< >>, <<"pending">>}
PriorityFilters == {<< >>, <<"high">>}

\* ------------------------------------------------------------- validation
\* app/schemas/task.py: TaskBase / TaskCreate
Has(body, f) == f \in DOMAIN body

TitleFieldValid(v) ==
    /\ v # NoneStr
    /\ StrLen(v) >= 1
    /\ StrLen(v) <= TITLE_MAX_LENGTH

DescriptionFieldValid(v) ==
    v = NoneStr \/ StrLen(v) <= DESCRIPTION_MAX_LENGTH

\* TaskCreate.title_not_empty
TaskCreate_title_not_empty(v) == v # << >> /\ strip(v) # << >>

TaskCreateValid(body) ==
    /\ Has(body, "title")
    /\ TitleFieldValid(body.title)
    /\ TaskCreate_title_not_empty(body.title)
    /\ Has(body, "description") => DescriptionFieldValid(body.description)
    /\ Has(body, "status") => body.status \in TaskStatus
    /\ Has(body, "priority") => body.priority \in TaskPriority

\* Variant: the default of an omitted priority is "low".
TaskCreate_model_dump_low(body) ==
    [title |-> strip(body.title),
     description |-> IF Has(body, "description") THEN body.description ELSE NoneStr,
     status |-> IF Has(body, "status") THEN body.status ELSE "pending",
     priority |-> IF Has(body, "priority") THEN body.priority ELSE "low"]

\* TaskCreate(...).model_dump(): validated values, defaults for unset fields
TaskCreate_model_dump(body) ==
    [title |-> strip(body.title),
     description |-> IF Has(body, "description") THEN body.description ELSE NoneStr,
     status |-> IF Has(body, "status") THEN body.status ELSE "pending",
     priority |-> IF Has(body, "priority") THEN body.priority ELSE "medium"]

\* Variant: the validator of TaskUpdate accepts every title.
TaskUpdate_title_unchecked(v) == TRUE

\* TaskUpdate.title_not_empty
TaskUpdate_title_not_empty(v) ==
    ~(v # NoneStr /\ (v = << >> \/ strip(v) = << >>))

TaskUpdateValid(body) ==
    /\ Has(body, "title") =>
          /\ body.title = NoneStr
               \/ (StrLen(body.title) >= 1 /\ StrLen(body.title) <= TITLE_MAX_LENGTH)
          /\ TaskUpdate_title_not_empty(body.title)
    /\ Has(body, "description") => DescriptionFieldValid(body.description)
    /\ Has(body, "status") => body.status \in TaskStatus \cup {None}
    /\ Has(body, "priority") => body.priority \in TaskPriority \cup {None}

\* Variant: model_dump() without exclude_unset, every unset field is None.
TaskUpdate_model_dump_all(body) ==
    [f \in {"title", "description", "status", "priority"} |->
        IF f \notin DOMAIN body
        THEN (IF f \in {"title", "description"} THEN NoneStr ELSE None)
        ELSE IF f = "title"
        THEN (IF body.title # NoneStr /\ body.title # << >>
              THEN strip(body.title) ELSE NoneStr)
        ELSE body[f]]

\* Variant: model_dump(exclude_none=True), a field sent as null is dropped.
TaskUpdate_model_dump_exclude_none(body) ==
    [f \in {g \in DOMAIN body :
               IF g \in {"title", "description"}
               THEN body[g] # NoneStr ELSE body[g] # None} |->
        IF f = "title" THEN strip(body.title) ELSE body[f]]

\* TaskUpdate(...).model_dump(exclude_unset=True)
TaskUpdate_model_dump(body) ==
    [f \in DOMAIN body |->
        IF f = "title"
        THEN (IF body.title # NoneStr /\ body.title # << >>
              THEN strip(body.title) ELSE NoneStr)
        ELSE body[f]]

\* app/api/deps.py: CommonQueryParams
CommonQueryParams(skip, limit) ==
    [skip |-> IF skip = << >> THEN DEFAULT_SKIP ELSE skip[1],
     limit |-> IF limit = << >> THEN DEFAULT_LIMIT ELSE limit[1]]

PaginationValid(p) ==
    /\ p.skip >= 0
    /\ p.limit >= 1
    /\ p.limit <= MAX_LIMIT

\* ------------------------------------------------------------------- rows
\* Variant: the columns are nullable.
RowNotNullOk_nullable(row) == TRUE

\* app/models/task.py: Task (NOT NULL columns: title, status, priority)
RowNotNullOk(row) ==
    /\ row.title # NoneStr
    /\ row.status # None
    /\ row.priority # None

\* app/exceptions/handlers.py
TaskNotFoundException(task_id) ==
    [code |-> HTTP_404_NOT_FOUND,
     detail |-> <<"Task with id", task_id, "not found">>]

\* one entry of exc.errors() as the handler copies it: loc, msg, type
ErrorDict(where, field, type, msg) ==
    [loc |-> <<where, field>>, msg |-> msg, type |-> type]

\* the errors of a str field with min_length / max_length and the
\* title_not_empty validator (the constraints are checked first)
TitleErrors(v) ==
    IF v = NoneStr
    THEN {ErrorDict("body", "title", "string_type", "Input should be a valid string")}
    ELSE IF StrLen(v) < 1
    THEN {ErrorDict("body", "title", "string_too_short",
                    "String should have at least 1 character")}
    ELSE IF StrLen(v) > TITLE_MAX_LENGTH
    THEN {ErrorDict("body", "title", "string_too_long",
                    "String should have at most 200 characters")}
    ELSE IF strip(v) = << >>
    THEN {ErrorDict("body", "title", "value_error",
                    "Value error, Title cannot be empty or whitespace")}
    ELSE {}

DescriptionErrors(body) ==
    IF Has(body, "description") /\ ~DescriptionFieldValid(body.description)
    THEN {ErrorDict("body", "description", "string_too_long",
                    "String should have at most 2000 characters")}
    ELSE {}

EnumErrors(body, f, allowed) ==
    IF Has(body, f) /\ body[f] \notin allowed
    THEN {ErrorDict("body", f, "enum", "Input should be one of the enum values")}
    ELSE {}

\* exc.errors() of TaskCreate(**body)
TaskCreateErrors(body) ==
    (IF ~Has(body, "title")
     THEN {ErrorDict("body", "title", "missing", "Field required")}
     ELSE TitleErrors(body.title))
    \cup DescriptionErrors(body)
    \cup EnumErrors(body, "status", TaskStatus)
    \cup EnumErrors(body, "priority", TaskPriority)

\* exc.errors() of TaskUpdate(**body)
TaskUpdateErrors(body) ==
    (IF Has(body, "title") /\ body.title # NoneStr
     THEN TitleErrors(body.title) ELSE {})
    \cup DescriptionErrors(body)
    \cup EnumErrors(body, "status", TaskStatus \cup {None})
    \cup EnumErrors(body, "priority", TaskPriority \cup {None})

\* exc.errors() of CommonQueryParams (skip ge=0, limit ge=1 le=MAX_LIMIT)
PaginationErrors(p) ==
    (IF p.skip < 0
     THEN {ErrorDict("query", "skip", "greater_than_equal",
                     "Input should be greater than or equal to 0")}
     ELSE {})
    \cup (IF p.limit < 1
          THEN {ErrorDict("query", "limit", "greater_than_equal",
                          "Input should be greater than or equal to 1")}
          ELSE {})
    \cup (IF p.limit > MAX_LIMIT
          THEN {ErrorDict("query", "limit", "less_than_equal",
                          "Input should be less than or equal to 1000")}
          ELSE {})

\* validation_exception_handler: the JSON content of the 422 response
validation_exception_handler(errors, path) ==
    [code |-> HTTP_422_UNPROCESSABLE_ENTITY,
     content |-> [error |-> "Validation Error",
                  message |-> "Invalid request data",
                  details |-> errors,
                  path |-> path]]

ServerError == [code |-> HTTP_500_INTERNAL_SERVER_ERROR]

\* ------------------------------------------------------------------- Init
Init ==
    /\ store = << >>
    /\ nextId = 1
    /\ clock = 0
    /\ nreq = 0
    /\ pc = [c \in Clients |-> "idle"]
    /\ req = [c \in Clients |-> NoReq]
    /\ loc = [c \in Clients |-> NoLoc]
    /\ resp = [c \in Clients |-> NoResp]
    /\ pre = [c \in Clients |-> NoPre]
    /\ issued = << >>
    /\ deleted = {}
    /\ scan = NoScan

\* A request is received by client slot c.
Receive(c, r) ==
    /\ pc[c] = "idle"
    /\ nreq < MaxRequests
    /\ nreq' = nreq + 1
    /\ req' = [req EXCEPT ![c] = r]
    /\ pre' = [pre EXCEPT ![c] = store]

Answer(c, r) ==
    /\ pc' = [pc EXCEPT ![c] = "done"]
    /\ resp' = [resp EXCEPT ![c] = r]

\* The client has read the response; the slot is free again.
Return(c) ==
    /\ pc[c] = "done"
    /\ pc' = [pc EXCEPT ![c] = "idle"]
    /\ req' = [req EXCEPT ![c] = NoReq]
    /\ loc' = [loc EXCEPT ![c] = NoLoc]
    /\ resp' = [resp EXCEPT ![c] = NoResp]
    /\ pre' = [pre EXCEPT ![c] = NoPre]
    /\ UNCHANGED <<store, nextId, clock, nreq, issued, deleted, scan>>

\* ------------------------------------------------------------ POST /tasks/
\* Variant: the two timestamps are taken in the other order.
NewTask_swapped(data, t1, t2) ==
    [id |-> NoId,
     title |-> data.title,
     description |-> data.description,
     status |-> data.status,
     priority |-> data.priority,
     created_at |-> t2,
     updated_at |-> t1]

\* Task(**task_in.model_dump()): id None, two calls of datetime.utcnow()
NewTask(data, t1, t2) ==
    [id |-> NoId,
     title |-> data.title,
     description |-> data.description,
     status |-> data.status,
     priority |-> data.priority,
     created_at |-> t1,
     updated_at |-> t2]

create_task_receive(c, bodies) ==
    \E body \in bodies :
        /\ Receive(c, [op |-> "POST", body |-> body])
        /\ IF ~TaskCreateValid(body)
           THEN /\ Answer(c, validation_exception_handler(
                               TaskCreateErrors(body), <<"tasks">>))
                /\ UNCHANGED <<loc, clock>>
           ELSE \E t1 \in clock..Min(clock + 1, MaxClock) :
                \E t2 \in t1..Min(t1 + 1, MaxClock) :
                    /\ clock' = t2
                    /\ loc' = [loc EXCEPT ![c] =
                          [at |-> "create",
                           task |-> NewTask(TaskCreate_model_dump(body), t1, t2)]]
                    /\ pc' = [pc EXCEPT ![c] = "create_commit"]
                    /\ UNCHANGED resp
        /\ UNCHANGED <<store, nextId, issued, deleted, scan>>

\* Variant: the INSERT does not advance the sequence.
create_task_commit_stuck(c) ==
    /\ pc[c] = "create_commit"
    /\ LET row == [loc[c].task EXCEPT !.id = nextId]
       IN /\ store' = [i \in DOMAIN store \cup {nextId} |->
                          IF i = nextId THEN row ELSE store[i]]
          /\ loc' = [loc EXCEPT ![c].task = row]
    /\ pc' = [pc EXCEPT ![c] = "create_refresh"]
    /\ UNCHANGED <<nextId, clock, nreq, req, resp, pre, issued, deleted, scan>>

create_task_start(c) == create_task_receive(c, CreateBodies)

\* the POST requests of concurrent clients (title only, as the clients of
\* tests/integration/test_validation_errors.py TestConcurrency send them)
create_task_concurrent(c) == create_task_receive(c, ConcurrentBodies)

\* the POST requests of the validation tests
create_task_validation(c) == create_task_receive(c, ValidationCreateBodies)

\* session.add(task); await session.commit(): INSERT, the id comes from the
\* table's sequence
create_task_commit(c) ==
    /\ pc[c] = "create_commit"
    /\ LET row == [loc[c].task EXCEPT !.id = nextId]
       IN /\ store' = [i \in DOMAIN store \cup {nextId} |->
                          IF i = nextId THEN row ELSE store[i]]
          /\ nextId' = nextId + 1
          /\ loc' = [loc EXCEPT ![c].task = row]
    /\ pc' = [pc EXCEPT ![c] = "create_refresh"]
    /\ UNCHANGED <<clock, nreq, req, resp, pre, issued, deleted, scan>>

\* await session.refresh(task); return task
create_task_refresh(c) ==
    /\ pc[c] = "create_refresh"
    /\ LET id == loc[c].task.id
       IN IF id \in DOMAIN store
          THEN /\ Answer(c, [code |-> HTTP_201_CREATED, task |-> store[id]])
               /\ loc' = [loc EXCEPT ![c].task = store[id]]
               /\ issued' = Append(issued, id)
          ELSE /\ Answer(c, ServerError)
               /\ UNCHANGED <<loc, issued>>
    /\ UNCHANGED <<store, nextId, clock, nreq, req, pre, deleted, scan>>

\* ------------------------------------------------------- GET /tasks/{id}
get_task_start(c) ==
    \E id \in TaskIds :
        /\ Receive(c, [op |-> "GET", task_id |-> id])
        /\ pc' = [pc EXCEPT ![c] = "get_fetch"]
        /\ UNCHANGED <<store, nextId, clock, loc, resp, issued, deleted, scan>>

\* crud.get_task: select(Task).where(Task.id == task_id), scalar_one_or_none
crud_get_task(task_id) ==
    IF task_id \in DOMAIN store THEN <<store[task_id]>> ELSE << >>

get_task_fetch(c) ==
    /\ pc[c] = "get_fetch"
    /\ LET task == crud_get_task(req[c].task_id)
       IN IF task = << >>
          THEN Answer(c, TaskNotFoundException(req[c].task_id))
          ELSE Answer(c, [code |-> HTTP_200_OK, task |-> task[1]])
    /\ UNCHANGED <<store, nextId, clock, nreq, req, loc, pre, issued, deleted, scan>>

\* ------------------------------------------------------------ GET /tasks/
\* statement.where(Task.status == status).where(Task.priority == priority)
Matches(row, status, priority) ==
    /\ status # None => row.status = status
    /\ priority # None => row.priority = priority

Matching(status, priority) ==
    {i \in DOMAIN store : Matches(store[i], status, priority)}

\* order_by(Task.created_at.desc()): every order of the rows the database
\* may produce; rows with equal created_at come in any order
OrderedRows(S) ==
    {f \in [1..Cardinality(S) -> S] :
        /\ \A i, j \in 1..Cardinality(S) : i # j => f[i] # f[j]
        /\ \A i, j \in 1..Cardinality(S) :
              i < j => store[f[i]].created_at >= store[f[j]].created_at}

\* Variant: the offset is not applied.
Page_no_offset(order, skip, limit) ==
    [k \in 1..Max(0, Min(limit, Len(order))) |-> store[order[k]]]

\* offset(skip).limit(limit)
Page(order, skip, limit) ==
    [k \in 1..Max(0, Min(limit, Len(order) - skip)) |-> store[order[skip + k]]]

\* Variant: the priority branch is missing.
EndpointFilter_status_only(status, priority) ==
    IF status # << >> THEN [status |-> status[1], priority |-> None]
    ELSE [status |-> None, priority |-> None]

\* endpoint get_tasks: if status ... elif priority ... else
EndpointFilter(status, priority) ==
    IF status # << >> THEN [status |-> status[1], priority |-> None]
    ELSE IF priority # << >> THEN [status |-> None, priority |-> priority[1]]
    ELSE [status |-> None, priority |-> None]

get_tasks_receive(c, skips, limits, statuses, priorities) ==
    \E skip \in skips, limit \in limits,
       status \in statuses, priority \in priorities :
        LET pagination == CommonQueryParams(skip, limit)
        IN /\ Receive(c, [op |-> "LIST", skip |-> skip, limit |-> limit,
                          status |-> status, priority |-> priority])
           /\ IF ~PaginationValid(pagination)
              THEN /\ Answer(c, validation_exception_handler(
                                  PaginationErrors(pagination), <<"tasks">>))
                   /\ UNCHANGED loc
              ELSE /\ loc' = [loc EXCEPT ![c] =
                         [at |-> "list",
                          pagination |-> pagination,
                          filter |-> EndpointFilter(status, priority)]]
                   /\ pc' = [pc EXCEPT ![c] = "list_page"]
                   /\ UNCHANGED resp
           /\ UNCHANGED <<store, nextId, clock, issued, deleted, scan>>

get_tasks_start(c) ==
    get_tasks_receive(c, Skips, Limits, StatusFilters, PriorityFilters)

\* the list requests of concurrent clients: the first page, unfiltered,
\* with the default limit or a limit of one
get_tasks_concurrent(c) ==
    get_tasks_receive(c, {<< >>}, {<< >>, <<1>>}, {<< >>}, {<< >>})

\* crud.get_tasks, first statement: the page
get_tasks_page(c) ==
    /\ pc[c] = "list_page"
    /\ LET f == loc[c].filter
           p == loc[c].pagination
       IN \E order \in OrderedRows(Matching(f.status, f.priority)) :
            loc' = [loc EXCEPT ![c] =
                       [at |-> "list", pagination |-> p, filter |-> f,
                        tasks |-> Page(order, p.skip, p.limit)]]
    /\ pc' = [pc EXCEPT ![c] = "list_count"]
    /\ UNCHANGED <<store, nextId, clock, nreq, req, resp, pre, issued, deleted, scan>>

\* crud.get_tasks, second statement: the count; TaskListResponse
get_tasks_count(c) ==
    /\ pc[c] = "list_count"
    /\ LET f == loc[c].filter
           total == Cardinality(Matching(f.status, f.priority))
       IN Answer(c, [code |-> HTTP_200_OK,
                     items |-> loc[c].tasks,
                     total |-> total,
                     skip |-> loc[c].pagination.skip,
                     limit |-> loc[c].pagination.limit])
    /\ UNCHANGED <<store, nextId, clock, nreq, req, loc, pre, issued, deleted, scan>>

\* ------------------------------------------------- PUT / PATCH /tasks/{id}
update_task_receive(c, methods, ids, bodies) ==
    \E method \in methods, id \in ids, body \in bodies :
        /\ Receive(c, [op |-> method, task_id |-> id, body |-> body])
        /\ IF ~TaskUpdateValid(body)
           THEN /\ Answer(c, validation_exception_handler(
                               TaskUpdateErrors(body), <<"tasks", id>>))
                /\ UNCHANGED loc
           ELSE /\ loc' = [loc EXCEPT ![c] =
                      [at |-> "update",
                       update_data |-> TaskUpdate_model_dump(body)]]
                /\ pc' = [pc EXCEPT ![c] = "upd_fetch"]
                /\ UNCHANGED resp
        /\ UNCHANGED <<store, nextId, clock, issued, deleted, scan>>

update_task_start(c) ==
    update_task_receive(c, {"PUT", "PATCH"}, TaskIds, UpdateBodies)

\* the PUT / PATCH requests of the validation tests
update_task_validation(c) ==
    update_task_receive(c, {"PUT", "PATCH"}, TaskIds, ValidationUpdateBodies)

\* the PUT requests of concurrent clients, all for the first task
update_task_concurrent(c) ==
    update_task_receive(c, {"PUT"}, {1}, ConcurrentUpdateBodies)

\* PUT / PATCH requests with an explicit null for title, status or priority
update_task_nulls(c) ==
    update_task_receive(c, {"PUT", "PATCH"}, TaskIds, NullUpdateBodies)

\* Variant: model_dump() without exclude_unset, an absent description is
\* written as None.
SetAttrs_unset(task, update_data) ==
    [f \in DOMAIN task |->
        IF f \in DOMAIN update_data THEN update_data[f]
        ELSE IF f = "description" THEN NoneStr ELSE task[f]]

\* for field, value in update_data.items(): setattr(task, field, value)
SetAttrs(task, update_data) ==
    [f \in DOMAIN task |->
        IF f \in DOMAIN update_data THEN update_data[f] ELSE task[f]]

\* Variant: updated_at is not assigned.
update_task_fetch_untouched(c) ==
    /\ pc[c] = "upd_fetch"
    /\ LET task == crud_get_task(req[c].task_id)
       IN IF task = << >>
          THEN /\ Answer(c, TaskNotFoundException(req[c].task_id))
               /\ UNCHANGED loc
          ELSE /\ loc' = [loc EXCEPT ![c] =
                     [at |-> "update",
                      update_data |-> loc[c].update_data,
                      loaded |-> task[1],
                      task |-> SetAttrs(task[1], loc[c].update_data)]]
               /\ pc' = [pc EXCEPT ![c] = "upd_commit"]
               /\ UNCHANGED resp
    /\ UNCHANGED <<store, nextId, clock, nreq, req, pre, issued, deleted, scan>>

\* task = await get_task(...); setattr...; task.updated_at = utcnow()
update_task_fetch(c) ==
    /\ pc[c] = "upd_fetch"
    /\ LET task == crud_get_task(req[c].task_id)
       IN IF task = << >>
          THEN /\ Answer(c, TaskNotFoundException(req[c].task_id))
               /\ UNCHANGED <<loc, clock>>
          ELSE \E t \in clock..Min(clock + 1, MaxClock) :
                /\ clock' = t
                /\ loc' = [loc EXCEPT ![c] =
                      [at |-> "update",
                       update_data |-> loc[c].update_data,
                       loaded |-> task[1],
                       task |-> [SetAttrs(task[1], loc[c].update_data)
                                    EXCEPT !.updated_at = t]]]
                /\ pc' = [pc EXCEPT ![c] = "upd_commit"]
                /\ UNCHANGED resp
    /\ UNCHANGED <<store, nextId, nreq, req, pre, issued, deleted, scan>>

\* the columns of the UPDATE statement: the attributes whose value changed
Dirty(loaded, task) == {f \in DOMAIN task : task[f] # loaded[f]}

\* Variant: the UPDATE carries a version check and fails when the row is no
\* longer the one that was loaded.
update_task_commit_versioned(c) ==
    /\ pc[c] = "upd_commit"
    /\ LET task == loc[c].task
           id == task.id
           dirty == Dirty(loc[c].loaded, task)
       IN IF dirty = {}
          THEN /\ pc' = [pc EXCEPT ![c] = "upd_refresh"]
               /\ UNCHANGED <<store, resp>>
          ELSE IF id \notin DOMAIN store \/ ~RowNotNullOk(task)
                  \/ store[id] # loc[c].loaded
          THEN /\ Answer(c, ServerError)
               /\ UNCHANGED store
          ELSE /\ store' = [store EXCEPT ![id] =
                      [f \in DOMAIN task |->
                          IF f \in dirty THEN task[f] ELSE store[id][f]]]
               /\ pc' = [pc EXCEPT ![c] = "upd_refresh"]
               /\ UNCHANGED resp
    /\ UNCHANGED <<nextId, clock, nreq, req, loc, pre, issued, deleted, scan>>

\* session.add(task); await session.commit()
update_task_commit(c) ==
    /\ pc[c] = "upd_commit"
    /\ LET task == loc[c].task
           id == task.id
           dirty == Dirty(loc[c].loaded, task)
       IN IF dirty = {}
          THEN /\ pc' = [pc EXCEPT ![c] = "upd_refresh"]
               /\ UNCHANGED <<store, resp>>
          ELSE IF id \notin DOMAIN store \/ ~RowNotNullOk(task)
          THEN \* StaleDataError / IntegrityError: rollback, 500
               /\ Answer(c, ServerError)
               /\ UNCHANGED store
          ELSE /\ store' = [store EXCEPT ![id] =
                      [f \in DOMAIN task |->
                          IF f \in dirty THEN task[f] ELSE store[id][f]]]
               /\ pc' = [pc EXCEPT ![c] = "upd_refresh"]
               /\ UNCHANGED resp
    /\ UNCHANGED <<nextId, clock, nreq, req, loc, pre, issued, deleted, scan>>

\* await session.refresh(task); return task
update_task_refresh(c) ==
    /\ pc[c] = "upd_refresh"
    /\ LET id == loc[c].task.id
       IN IF id \in DOMAIN store
          THEN Answer(c, [code |-> HTTP_200_OK, task |-> store[id]])
          ELSE Answer(c, ServerError)
    /\ UNCHANGED <<store, nextId, clock, nreq, req, loc, pre, issued, deleted, scan>>

\* ---------------------------------------------------- DELETE /tasks/{id}
delete_task_start(c) ==
    \E id \in TaskIds :
        /\ Receive(c, [op |-> "DELETE", task_id |-> id])
        /\ pc' = [pc EXCEPT ![c] = "del_fetch"]
        /\ UNCHANGED <<store, nextId, clock, loc, resp, issued, deleted, scan>>

\* Variant: the result of get_task is not checked.
delete_task_fetch_unchecked(c) ==
    /\ pc[c] = "del_fetch"
    /\ LET task == crud_get_task(req[c].task_id)
       IN loc' = [loc EXCEPT ![c] =
                    [at |-> "delete",
                     task |-> IF task = << >> THEN [id |-> req[c].task_id]
                              ELSE task[1]]]
    /\ pc' = [pc EXCEPT ![c] = "del_commit"]
    /\ UNCHANGED <<store, nextId, clock, nreq, req, resp, pre, issued, deleted, scan>>

\* task = await get_task(session, task_id); if not task: return False
delete_task_fetch(c) ==
    /\ pc[c] = "del_fetch"
    /\ LET task == crud_get_task(req[c].task_id)
       IN IF task = << >>
          THEN /\ Answer(c, TaskNotFoundException(req[c].task_id))
               /\ UNCHANGED loc
          ELSE /\ loc' = [loc EXCEPT ![c] = [at |-> "delete", task |-> task[1]]]
               /\ pc' = [pc EXCEPT ![c] = "del_commit"]
               /\ UNCHANGED resp
    /\ UNCHANGED <<store, nextId, clock, nreq, req, pre, issued, deleted, scan>>

\* Variant: the deletion is never committed.
delete_task_commit_lost(c) ==
    /\ pc[c] = "del_commit"
    /\ Answer(c, [code |-> HTTP_204_NO_CONTENT])
    /\ deleted' = deleted \cup {loc[c].task.id}
    /\ UNCHANGED <<store, nextId, clock, nreq, req, loc, pre, issued, scan>>

\* Variant: the DELETE statement has no WHERE clause.
delete_task_commit_all(c) ==
    /\ pc[c] = "del_commit"
    /\ store' = << >>
    /\ Answer(c, [code |-> HTTP_204_NO_CONTENT])
    /\ deleted' = deleted \cup {loc[c].task.id}
    /\ UNCHANGED <<nextId, clock, nreq, req, loc, pre, issued, scan>>

\* await session.delete(task); await session.commit(); return True
delete_task_commit(c) ==
    /\ pc[c] = "del_commit"
    /\ store' = [i \in DOMAIN store \ {loc[c].task.id} |-> store[i]]
    /\ Answer(c, [code |-> HTTP_204_NO_CONTENT])
    /\ deleted' = deleted \cup {loc[c].task.id}
    /\ UNCHANGED <<nextId, clock, nreq, req, loc, pre, issued, scan>>

\* ------------------------------------------------------------------- Next
\* One client: each request is handled to its response before the next one
\* is received.
Next ==
    \/ create_task_start(1)
    \/ create_task_commit(1)
    \/ create_task_refresh(1)
    \/ get_task_start(1)
    \/ get_task_fetch(1)
    \/ get_tasks_start(1)
    \/ get_tasks_page(1)
    \/ get_tasks_count(1)
    \/ update_task_start(1)
    \/ update_task_fetch(1)
    \/ update_task_commit(1)
    \/ update_task_refresh(1)
    \/ delete_task_start(1)
    \/ delete_task_fetch(1)
    \/ delete_task_commit(1)
    \/ Return(1)

Spec == Init /\ [][Next]_vars

\* Concurrent POST requests: the handlers of all clients interleave at their
\* awaits.
NextPost ==
    \E c \in Clients :
        \/ create_task_concurrent(c)
        \/ create_task_commit(c)
        \/ create_task_refresh(c)
        \/ Return(c)

SpecPost == Init /\ [][NextPost]_vars

\* The requests of the validation tests, one client: bodies at and beyond
\* the limits of the schemas.
NextValidation ==
    \/ create_task_validation(1)
    \/ create_task_commit(1)
    \/ create_task_refresh(1)
    \/ update_task_validation(1)
    \/ update_task_fetch(1)
    \/ update_task_commit(1)
    \/ update_task_refresh(1)
    \/ Return(1)

SpecValidation == Init /\ [][NextValidation]_vars

\* Concurrent PUT requests on one stored task: the first request has
\* created the task (title TitleA, the other fields at their defaults),
\* then the handlers of all clients interleave at their awaits.
InitPut ==
    /\ store = [i \in {1} |->
                  [NewTask(TaskCreate_model_dump([title |-> TitleA]), 0, 0)
                      EXCEPT !.id = 1]]
    /\ nextId = 2
    /\ clock = 0
    /\ nreq = 1
    /\ pc = [c \in Clients |-> "idle"]
    /\ req = [c \in Clients |-> NoReq]
    /\ loc = [c \in Clients |-> NoLoc]
    /\ resp = [c \in Clients |-> NoResp]
    /\ pre = [c \in Clients |-> NoPre]
    /\ issued = <<1>>
    /\ deleted = {}
    /\ scan = NoScan

NextPut ==
    \E c \in Clients :
        \/ update_task_concurrent(c)
        \/ update_task_fetch(c)
        \/ update_task_commit(c)
        \/ update_task_refresh(c)
        \/ Return(c)

SpecPut == InitPut /\ [][NextPut]_vars

\* Concurrent clients on a table that holds one task: create, list and
\* delete requests whose handlers interleave at their awaits.
NextShared ==
    \E c \in Clients :
        \/ create_task_concurrent(c)
        \/ create_task_commit(c)
        \/ create_task_refresh(c)
        \/ get_tasks_concurrent(c)
        \/ get_tasks_page(c)
        \/ get_tasks_count(c)
        \/ delete_task_start(c)
        \/ delete_task_fetch(c)
        \/ delete_task_commit(c)
        \/ Return(c)

SpecShared == InitPut /\ [][NextShared]_vars

\* Create, update and delete requests of one client with the bodies of the
\* validation tests and with explicit nulls: what can end up in the table.
NextFields ==
    \/ create_task_validation(1)
    \/ create_task_commit(1)
    \/ create_task_refresh(1)
    \/ update_task_validation(1)
    \/ update_task_nulls(1)
    \/ update_task_fetch(1)
    \/ update_task_commit(1)
    \/ update_task_refresh(1)
    \/ delete_task_start(1)
    \/ delete_task_fetch(1)
    \/ delete_task_commit(1)
    \/ Return(1)

SpecFields == Init /\ [][NextFields]_vars

\* --------------------------------------------------------- secret scanner
\* The Match Engine of the scanner scripts (spec.md 4.3): every surviving
\* rule match becomes a Finding whose masked_value hides the matched text.
\* A matched text is a sequence of characters.
MASK_PREFIX == 8
Placeholder == <<"*", "*", "*">>

Stars(n) == [k \in 1..n |-> "*"]

\* the first n characters of m (all of m when it is shorter)
Take(m, n) == SubSeq(m, 1, Min(n, Len(m)))

\* Variant: the remainder is masked without the check for a short match.
mask_unguarded(m) == Take(m, MASK_PREFIX) \o Stars(Len(m) - MASK_PREFIX)

\* spec.md 4.3 step 5: keep the first 8 characters and replace the
\* remainder with '*' characters, or '***' if the matched text is 8
\* characters or shorter
mask(m) ==
    IF Len(m) <= MASK_PREFIX THEN Placeholder
    ELSE Take(m, MASK_PREFIX) \o Stars(Len(m) - MASK_PREFIX)

\* the matched texts of the run: the prefixes of one secret, the empty
\* match included
SampleSecret ==
    <<"s", "k", "_", "t", "e", "s", "t", "_",
      "1", "2", "3", "4", "5", "6", "7", "8", "9", "0">>

MatchedTexts == {SubSeq(SampleSecret, 1, n) : n \in 0..Len(SampleSecret)}

RECURSIVE SeqsUpTo(_, _)
SeqsUpTo(S, n) ==
    IF n = 0 THEN {<< >>}
    ELSE LET shorter == SeqsUpTo(S, n - 1)
         IN shorter \cup {Append(q, x) : q \in shorter, x \in S}

\* A scan run starts with the rule matches that survived the suppression,
\* in the order in which they were found.
InitScan ==
    /\ store = << >>
    /\ nextId = 1
    /\ clock = 0
    /\ nreq = 0
    /\ pc = [c \in Clients |-> "idle"]
    /\ req = [c \in Clients |-> NoReq]
    /\ loc = [c \in Clients |-> NoLoc]
    /\ resp = [c \in Clients |-> NoResp]
    /\ pre = [c \in Clients |-> NoPre]
    /\ issued = << >>
    /\ deleted = {}
    /\ \E ms \in SeqsUpTo(MatchedTexts, MaxMatches) :
          scan = [matches |-> ms, raw |-> << >>, findings |-> << >>]

\* step 5: the next match becomes a Finding with its masked value; raw is
\* the history of the matched texts, in the order of the findings
record_finding ==
    /\ scan.matches # << >>
    /\ LET m == Head(scan.matches)
       IN scan' = [matches |-> Tail(scan.matches),
                   raw |-> Append(scan.raw, m),
                   findings |-> Append(scan.findings, [masked_value |-> mask(m)])]
    /\ UNCHANGED <<store, nextId, clock, nreq, pc, req, loc, resp, pre, issued,
                   deleted>>

NextScan == record_finding

SpecScan == InitScan /\ [][NextScan]_vars

\* ------------------------------------------------------- scan run (4.3)
\* the variables of the Task Management API, which no scanner touches
apiVars == <<store, nextId, clock, nreq, pc, req, loc, resp, pre, issued, deleted>>

ApiAtRest ==
    /\ store = << >>
    /\ nextId = 1
    /\ clock = 0
    /\ nreq = 0
    /\ pc = [c \in Clients |-> "idle"]
    /\ req = [c \in Clients |-> NoReq]
    /\ loc = [c \in Clients |-> NoLoc]
    /\ resp = [c \in Clients |-> NoResp]
    /\ pre = [c \in Clients |-> NoPre]
    /\ issued = << >>
    /\ deleted = {}

\* the four-level taxonomy of the secret and security scanners
KnownSeverities == {"CRITICAL", "HIGH", "MEDIUM", "LOW"}

NoCounts == [level \in KnownSeverities |-> 0]

\* step 4: a source line is a sequence of tokens, " " is whitespace
CommentMarkers == {"#", "//", "/*", "*", "<!--"}
PlaceholderKeywords == {"example", "test", "dummy", "fake", "sample", "placeholder"}
SecretKeywords == {"password", "secret", "key", "token"}
SHORT_VALUE == 3

RECURSIVE TrimLeft(_)
TrimLeft(line) ==
    IF line = << >> THEN line
    ELSE IF Head(line) = " " THEN TrimLeft(Tail(line)) ELSE line

RECURSIVE TrimRight(_)
TrimRight(line) ==
    IF line = << >> THEN line
    ELSE IF line[Len(line)] = " "
         THEN TrimRight(SubSeq(line, 1, Len(line) - 1)) ELSE line

\* the trimmed source line (the code_snippet of a finding)
TrimLine(line) == TrimRight(TrimLeft(line))

Contains(line, keywords) == \E k \in 1..Len(line) : line[k] \in keywords

\* (a) the trimmed line begins with a comment marker
SuppressedAsComment(match) ==
    LET t == TrimLine(match.line)
    IN t # << >> /\ t[1] \in CommentMarkers

\* Variant: a placeholder keyword alone suppresses the match.
SuppressedAsPlaceholder_alone(match) == Contains(match.line, PlaceholderKeywords)

\* (b) a placeholder keyword together with a secret-related keyword
SuppressedAsPlaceholder(match) ==
    /\ Contains(match.line, PlaceholderKeywords)
    /\ Contains(match.line, SecretKeywords)

\* (c) the quoted captured value is empty or at most 3 characters
SuppressedAsShort(match) == Len(match.value) <= SHORT_VALUE

Suppressed(match) ==
    \/ SuppressedAsComment(match)
    \/ SuppressedAsPlaceholder(match)
    \/ SuppressedAsShort(match)

\* step 5: the Finding of a surviving match
Finding(path, match) ==
    [file_path |-> path,
     line_number |-> match.line_number,
     severity |-> match.severity,
     label |-> match.label,
     code_snippet |-> TrimLine(match.line),
     masked_value |-> mask(match.text)]

\* Variant: a severity without a counter is counted as the lowest level.
add_finding_default(run, f) ==
    [run EXCEPT
        !.findings = Append(@, f),
        !.severity_counts =
            IF f.severity \in DOMAIN @
            THEN [@ EXCEPT ![f.severity] = @ + 1]
            ELSE [@ EXCEPT !["low"] = @ + 1]]

\* steps 5 and 6: the finding is appended; its severity is counted when it
\* is one of the run's known levels, and the finding counts toward the
\* total in every case
add_finding(run, f) ==
    [run EXCEPT
        !.findings = Append(@, f),
        !.severity_counts =
            IF f.severity \in DOMAIN @
            THEN [@ EXCEPT ![f.severity] = @ + 1] ELSE @]

\* rule matches, as the rules of the registry find them in a file
Quote == "\""
ShortValue == <<"a", "b", "c">>
FourValue == <<"a", "b", "c", "d">>

Match(line_number, line, value, label, severity) ==
    [line_number |-> line_number, line |-> line, value |-> value,
     text |-> value, label |-> label, severity |-> severity]

\* password = "..." with no comment and no placeholder keyword
MatchPassword ==
    Match(1, <<"password", " ", "=", " ", Quote, "sk_test_1234567890", Quote>>,
          SampleSecret, "Hardcoded Password", "CRITICAL")

\* # api_key = "..."
MatchCommented ==
    Match(1, <<"#", " ", "api_", "key", " ", "=", " ", Quote, "1234567890abcdef", Quote>>,
          SampleSecret, "API Key", "CRITICAL")

\* an indented // comment
MatchIndentedComment ==
    Match(2, <<" ", " ", "//", " ", "token", " ", "=", " ", Quote, "abcdefgh", Quote>>,
          SampleSecret, "Access Token", "HIGH")

\* api_key = "test_dummy_placeholder_key_000000"
MatchPlaceholder ==
    Match(1, <<"api_", "key", " ", "=", " ", Quote, "test", "_", "dummy", "_",
               "placeholder", "_", "key", "_000000", Quote>>,
          SampleSecret, "API Key", "CRITICAL")

\* a placeholder keyword without any secret-related keyword
MatchPlaceholderOnly ==
    Match(2, <<"auth", " ", "=", " ", Quote, "Bearer", " ", "example", "abcdefgh", Quote>>,
          SampleSecret, "Bearer Token", "HIGH")

\* a captured value of 3 characters, of no characters, of 4 characters
MatchShortValue ==
    Match(3, <<"pwd", " ", "=", " ", Quote, "abc", Quote>>,
          ShortValue, "Hardcoded Password", "CRITICAL")

MatchEmptyValue ==
    Match(1, <<"pwd", " ", "=", " ", Quote, Quote>>,
          << >>, "Hardcoded Password", "CRITICAL")

MatchFourValue ==
    Match(2, <<"pwd", " ", "=", " ", Quote, "abcd", Quote, " ", "#", " ", "x">>,
          FourValue, "High Entropy String", "MEDIUM")

\* a candidate file: its path, the matches of the rules in its text, and
\* fails_at: << >> when reading and scanning succeed, <<k>> when an
\* exception is raised after k matches were handled (<<0>>: the read fails)
File(path, matches, fails_at) ==
    [path |-> path, matches |-> matches, fails_at |-> fails_at]

FileSamples ==
    { File("comments.py", <<MatchCommented, MatchIndentedComment>>, << >>),
      File("settings.py", <<MatchPassword>>, << >>),
      File("config.js", <<MatchPlaceholder, MatchPlaceholderOnly, MatchShortValue>>, << >>),
      File("short.py", <<MatchEmptyValue, MatchFourValue>>, << >>),
      File("unreadable.bin", << >>, <<0>>),
      File("broken.py", <<MatchPassword, MatchPlaceholderOnly>>, <<1>>),
      File("empty.py", << >>, << >>) }

\* ScanRun: created at invocation with the root path and, for a valid
\* root, the candidate files of the Tree Walker
NewRun(root_valid, files) ==
    [phase |-> "start",
     root_valid |-> root_valid,
     candidates |-> files,
     files |-> files,
     files_scanned |-> 0,
     findings |-> << >>,
     severity_counts |-> NoCounts,
     seen |-> << >>,
     warnings |-> << >>,
     errors |-> << >>,
     exit_code |-> << >>]

InitRun ==
    /\ ApiAtRest
    /\ \/ scan = NewRun(FALSE, << >>)
       \/ \E files \in SeqsUpTo(FileSamples, MaxFiles) : scan = NewRun(TRUE, files)

\* Variant: the path error is reported and the run goes on.
start_scan_lenient ==
    /\ scan.phase = "start"
    /\ scan' = IF scan.root_valid
               THEN [scan EXCEPT !.phase = "walking"]
               ELSE [scan EXCEPT !.phase = "walking",
                                 !.errors = Append(@, "PathError")]
    /\ UNCHANGED apiVars

\* main: an invalid root path is reported and the process exits with a
\* nonzero status; otherwise the walk starts
start_scan ==
    /\ scan.phase = "start"
    /\ scan' = IF scan.root_valid
               THEN [scan EXCEPT !.phase = "walking"]
               ELSE [scan EXCEPT !.phase = "exited",
                                 !.errors = Append(@, "PathError"),
                                 !.exit_code = <<1>>]
    /\ UNCHANGED apiVars

\* steps 4 to 6 for the matches of one file, in order; seen is the history
\* of the matches that were handled
RECURSIVE ScanMatches(_, _, _)
ScanMatches(run, path, matches) ==
    IF matches = << >> THEN run
    ELSE LET m == Head(matches)
             noted == [run EXCEPT !.seen = Append(@, [path |-> path, match |-> m])]
         IN ScanMatches(IF Suppressed(m) THEN noted
                        ELSE add_finding(noted, Finding(path, m)),
                        path, Tail(matches))

\* Variant: a failure on one file ends the walk.
scan_file_abort ==
    /\ scan.phase = "walking"
    /\ scan.files # << >>
    /\ LET file == Head(scan.files)
           failed == file.fails_at # << >>
           handled == IF failed THEN SubSeq(file.matches, 1, file.fails_at[1])
                      ELSE file.matches
           run == ScanMatches(scan, file.path, handled)
       IN IF failed
          THEN scan' = [run EXCEPT !.files = << >>,
                                   !.warnings = Append(@, file.path)]
          ELSE scan' = [run EXCEPT !.files = Tail(@),
                                   !.files_scanned = @ + 1]
    /\ UNCHANGED apiVars

\* the walker loop, one file: open, read, scan, close; a failure is caught
\* and reported as a warning naming the file, and the walk continues
\* (whether a file that failed counts as scanned is left open)
scan_file ==
    /\ scan.phase = "walking"
    /\ scan.files # << >>
    /\ LET file == Head(scan.files)
           failed == file.fails_at # << >>
           handled == IF failed THEN SubSeq(file.matches, 1, file.fails_at[1])
                      ELSE file.matches
           run == ScanMatches(scan, file.path, handled)
       IN IF failed
          THEN \E counted \in {0, 1} :
                 scan' = [run EXCEPT !.files = Tail(@),
                                     !.files_scanned = @ + counted,
                                     !.warnings = Append(@, file.path)]
          ELSE scan' = [run EXCEPT !.files = Tail(@),
                                   !.files_scanned = @ + 1]
    /\ UNCHANGED apiVars

\* the report is printed once the walk is over; exit code 0 whatever was
\* found
report ==
    /\ scan.phase = "walking"
    /\ scan.files = << >>
    /\ scan' = [scan EXCEPT !.phase = "reported", !.exit_code = <<0>>]
    /\ UNCHANGED apiVars

NextRun ==
    \/ start_scan
    \/ scan_file
    \/ report

SpecRun == InitRun /\ [][NextRun]_vars

\* ------------------------------------------------ dependency check (4.4)
\* the levels of the dependency checker: MODERATE stands for MEDIUM
DependencySeverities == {"critical", "high", "moderate", "low"}

\* the advisory tools, in the order in which they are tried
Adapters == <<"pip-audit", "safety">>

\* exit codes after which the output of the tool is parsed
RanSuccessfully == {0, 1}

\* the severity field of an advisory as the tool prints it; << >> when the
\* key is missing
RawSeverities ==
    {<<"critical">>, <<"HIGH">>, <<"moderate">>, <<"low">>, <<"info">>, << >>}

\* str.lower() on the values above
Lower(s) == IF s = "HIGH" THEN "high" ELSE s

\* 4.1: the tool's own severity field, lower-cased, unknown when missing
AdvisorySeverity(raw) == IF raw = << >> THEN "unknown" ELSE Lower(raw[1])

AdvisoryFinding(adapter, raw) ==
    [file_path |-> adapter,
     package |-> "package",
     severity |-> AdvisorySeverity(raw)]

\* what one invocation of a tool can end in
Outcomes ==
    {[kind |-> "not_found"], [kind |-> "timeout"]}
    \cup {[kind |-> "exit", code |-> 2, parsed |-> TRUE,
            advisories |-> << <<"high">> >>]}
    \cup {[kind |-> "exit", code |-> c, parsed |-> FALSE, advisories |-> << >>] :
             c \in RanSuccessfully}
    \cup {[kind |-> "exit", code |-> 0, parsed |-> TRUE, advisories |-> << >>]}
    \cup {[kind |-> "exit", code |-> 1, parsed |-> TRUE, advisories |-> a] :
             a \in SeqsUpTo(RawSeverities, MaxAdvisories) \ {<< >>}}

\* 4.4 and 7 (3): tool not found, timeout, exit code outside {0, 1} or
\* output that does not parse: this adapter is unavailable
Unavailable(outcome) ==
    \/ outcome.kind \in {"not_found", "timeout"}
    \/ /\ outcome.kind = "exit"
       /\ outcome.code \notin RanSuccessfully \/ ~outcome.parsed

NewCheck ==
    [phase |-> "adapters",
     adapters |-> Adapters,
     tried |-> << >>,
     pending |-> << >>,
     used |-> << >>,
     findings |-> << >>,
     severity_counts |-> [level \in DependencySeverities |-> 0],
     messages |-> << >>,
     errors |-> << >>,
     exit_code |-> << >>]

InitDeps == ApiAtRest /\ scan = NewCheck

\* Variant: the guidance is printed as soon as the first tool is
\* unavailable.
try_adapter_once ==
    /\ scan.phase = "adapters"
    /\ scan.adapters # << >>
    /\ \E outcome \in Outcomes :
          LET adapter == Head(scan.adapters)
              tried == Append(scan.tried, [adapter |-> adapter, outcome |-> outcome])
          IN IF Unavailable(outcome)
             THEN scan' = [scan EXCEPT !.adapters = << >>, !.tried = tried]
             ELSE scan' = [scan EXCEPT !.phase = "parsing",
                                       !.tried = tried,
                                       !.used = <<adapter>>,
                                       !.pending = outcome.advisories]
    /\ UNCHANGED apiVars

\* the next tool of the chain is invoked (with its timeout); an
\* unavailable tool makes the checker fall back to the next one
try_adapter ==
    /\ scan.phase = "adapters"
    /\ scan.adapters # << >>
    /\ \E outcome \in Outcomes :
          LET adapter == Head(scan.adapters)
              tried == Append(scan.tried, [adapter |-> adapter, outcome |-> outcome])
          IN IF Unavailable(outcome)
             THEN scan' = [scan EXCEPT !.adapters = Tail(@), !.tried = tried]
             ELSE scan' = [scan EXCEPT !.phase = "parsing",
                                       !.tried = tried,
                                       !.used = <<adapter>>,
                                       !.pending = outcome.advisories]
    /\ UNCHANGED apiVars

\* the next advisory of the parsed output becomes a finding
record_advisory ==
    /\ scan.phase = "parsing"
    /\ scan.pending # << >>
    /\ scan' = add_finding([scan EXCEPT !.pending = Tail(@)],
                           AdvisoryFinding(scan.used[1], Head(scan.pending)))
    /\ UNCHANGED apiVars

\* the report of the tool that ran
report_advisories ==
    /\ scan.phase = "parsing"
    /\ scan.pending = << >>
    /\ scan' = [scan EXCEPT !.phase = "reported", !.exit_code = <<0>>]
    /\ UNCHANGED apiVars

\* no tool is left: the "install one of these tools" message, no findings
install_guidance ==
    /\ scan.phase = "adapters"
    /\ scan.adapters = << >>
    /\ scan' = [scan EXCEPT !.phase = "reported",
                            !.messages = Append(@, "install a tool"),
                            !.exit_code = <<0>>]
    /\ UNCHANGED apiVars

NextDeps ==
    \/ try_adapter
    \/ record_advisory
    \/ report_advisories
    \/ install_guidance

SpecDeps == InitDeps /\ [][NextDeps]_vars

\* ================================================================ claims
Done(c, ops) == pc[c] = "done" /\ req[c].op \in ops

ById == {"GET", "PUT", "PATCH", "DELETE"}

\* the request passes the validation of its body
BodyValid(r) ==
    /\ r.op = "POST" => TaskCreateValid(r.body)
    /\ r.op \in {"PUT", "PATCH"} => TaskUpdateValid(r.body)

\* C1: a POST with a valid body is answered 201 and stores exactly one new
\* task; its description, status and priority are the submitted values, an
\* omitted field has its default (description null, status pending, priority
\* medium); the response carries the stored task with its generated id,
\* created_at and updated_at.
C1_CreateStoresOne ==
    \A c \in Clients :
        (Done(c, {"POST"}) /\ TaskCreateValid(req[c].body)) =>
            LET body == req[c].body
                new == DOMAIN store \ DOMAIN pre[c]
            IN /\ resp[c].code = HTTP_201_CREATED
               /\ Cardinality(new) = 1
               /\ DOMAIN pre[c] \subseteq DOMAIN store
               /\ \A i \in DOMAIN pre[c] : store[i] = pre[c][i]
               /\ \A i \in new :
                    /\ resp[c].task = store[i]
                    /\ resp[c].task.id = i
                    /\ i # NoId
                    /\ resp[c].task.created_at \in 0..clock
                    /\ resp[c].task.updated_at \in 0..clock
                    /\ store[i].description =
                         (IF "description" \in DOMAIN body
                          THEN body.description ELSE NoneStr)
                    /\ store[i].status =
                         (IF "status" \in DOMAIN body THEN body.status ELSE "pending")
                    /\ store[i].priority =
                         (IF "priority" \in DOMAIN body
                          THEN body.priority ELSE "medium")

\* C1 witness: a POST carrying only a title was answered 201 while another
\* task was already stored.
C1_Witness ==
    /\ Done(1, {"POST"})
    /\ DOMAIN req[1].body = {"title"}
    /\ resp[1].code = HTTP_201_CREATED
    /\ Cardinality(DOMAIN store) = 2

\* C2: after PUT or PATCH on an existing task, every field among title,
\* description, status and priority that is absent from the body has its
\* previous stored value, and the task's id is unchanged.
C2_UpdateKeepsAbsentFields ==
    \A c \in Clients :
        (Done(c, {"PUT", "PATCH"}) /\ req[c].task_id \in DOMAIN pre[c]) =>
            LET id == req[c].task_id
            IN /\ id \in DOMAIN store
               /\ store[id].id = id
               /\ \A f \in {"title", "description", "status", "priority"}
                            \ DOMAIN req[c].body :
                      store[id][f] = pre[c][id][f]

\* C2 witness: an update that carries no description was answered 200 and
\* changed the title of a task whose description is not null.
C2_Witness ==
    /\ Done(1, {"PUT", "PATCH"})
    /\ resp[1].code = HTTP_200_OK
    /\ "description" \notin DOMAIN req[1].body
    /\ req[1].task_id \in DOMAIN pre[1]
    /\ pre[1][req[1].task_id].description # NoneStr
    /\ store[req[1].task_id].title # pre[1][req[1].task_id].title

\* C3: once DELETE has answered 204 for an id, the task is not stored; a
\* later GET, PUT, PATCH or DELETE on that id (with a body that passes
\* validation) is answered 404, and no list response contains the task.
C3_DeletedStaysGone ==
    /\ \A i \in deleted : i \notin DOMAIN store
    /\ \A c \in Clients :
        (/\ Done(c, ById)
         /\ BodyValid(req[c])
         /\ req[c].task_id \in deleted
         /\ req[c].task_id \notin DOMAIN pre[c]) =>
            resp[c].code = HTTP_404_NOT_FOUND
    /\ \A c \in Clients :
        (Done(c, {"LIST"}) /\ resp[c].code = HTTP_200_OK) =>
            \A k \in DOMAIN resp[c].items : resp[c].items[k].id \notin deleted

\* C3 witness: a second DELETE of a deleted id was answered 404.
C3_Witness ==
    /\ Done(1, {"DELETE"})
    /\ req[1].task_id \in deleted
    /\ req[1].task_id \notin DOMAIN pre[1]
    /\ resp[1].code = HTTP_404_NOT_FOUND

\* C4: GET, PUT, PATCH or DELETE (with a body that passes validation) on an
\* id under which no task is stored is answered 404 with the message
\* "Task with id {id} not found", and the stored tasks are unchanged.
C4_MissingIdIs404 ==
    \A c \in Clients :
        (/\ Done(c, ById)
         /\ BodyValid(req[c])
         /\ req[c].task_id \notin DOMAIN pre[c]) =>
            /\ resp[c].code = HTTP_404_NOT_FOUND
            /\ resp[c].detail = <<"Task with id", req[c].task_id, "not found">>
            /\ store = pre[c]

\* C4 witness: a PUT on an id that is not stored was answered 404 while
\* another task is stored.
C4_Witness ==
    /\ Done(1, {"PUT"})
    /\ req[1].task_id \notin DOMAIN pre[1]
    /\ resp[1].code = HTTP_404_NOT_FOUND
    /\ DOMAIN store # {}

\* C5: in every interleaving of POST requests, each request with a valid body
\* is answered 201, the ids answered are pairwise distinct, and no two
\* stored tasks share an id.
C5_UniqueIds ==
    /\ \A c \in Clients :
        (Done(c, {"POST"}) /\ TaskCreateValid(req[c].body)) =>
            resp[c].code = HTTP_201_CREATED
    /\ \A i, j \in DOMAIN issued : i # j => issued[i] # issued[j]
    /\ \A i, j \in DOMAIN store : i # j => store[i].id # store[j].id
    /\ \A i \in DOMAIN store : store[i].id = i

\* C5 witness: two POST requests overlapped, the one constructed first was
\* inserted last, and both were answered 201.
C5_Witness ==
    /\ Done(1, {"POST"}) /\ Done(2, {"POST"})
    /\ resp[1].code = HTTP_201_CREATED /\ resp[2].code = HTTP_201_CREATED
    /\ Len(issued) = 2
    /\ resp[1].task.id > resp[2].task.id
    /\ resp[1].task.created_at < resp[2].task.created_at

\* the skip and limit of a list request, omitted parameters at their defaults
SkipOf(r) == IF r.skip = << >> THEN 0 ELSE r.skip[1]
LimitOf(r) == IF r.limit = << >> THEN 100 ELSE r.limit[1]

\* C6: a list request with skip s >= 0 and limit 1 <= l <= 1000 is answered
\* 200; total is the number of stored tasks matching the filter the handler
\* applied, whatever s and l are; the page has exactly
\* min(l, max(0, total - s)) items; the response echoes s and l.
C6_PageSizeAndTotal ==
    \A c \in Clients :
        Done(c, {"LIST"}) =>
            LET s == SkipOf(req[c])
                l == LimitOf(req[c])
            IN /\ (s >= 0 /\ l >= 1 /\ l <= 1000) => resp[c].code = HTTP_200_OK
               /\ resp[c].code = HTTP_200_OK =>
                    LET f == loc[c].filter
                        total == Cardinality(
                            {i \in DOMAIN store :
                                /\ f.status = None \/ store[i].status = f.status
                                /\ f.priority = None \/ store[i].priority = f.priority})
                    IN /\ resp[c].total = total
                       /\ Len(resp[c].items) = Min(l, Max(0, total - s))
                       /\ resp[c].skip = s
                       /\ resp[c].limit = l

\* C6 witness: a filtered list request with skip 1 and limit 1 returned one
\* of two matching tasks.
C6_Witness ==
    /\ Done(1, {"LIST"})
    /\ resp[1].code = HTTP_200_OK
    /\ req[1].status # << >>
    /\ req[1].skip = <<1>> /\ req[1].limit = <<1>>
    /\ resp[1].total = 2
    /\ Len(resp[1].items) = 1

\* the stored ids in ascending order: the order in which the tasks were
\* created
RECURSIVE Ascending(_)
Ascending(S) ==
    IF S = {} THEN << >>
    ELSE LET m == CHOOSE x \in S : \A y \in S : x <= y
         IN <<m>> \o Ascending(S \ {m})

\* C7: an unfiltered list request with skip s and limit l returns the tasks
\* in creation order, oldest first: T(s+1)..T(s+l) of the tasks T1..Tn in
\* the order they were created (stated for tasks created at pairwise
\* different times).
C7_OldestFirst ==
    \A c \in Clients :
        (/\ Done(c, {"LIST"})
         /\ resp[c].code = HTTP_200_OK
         /\ req[c].status = << >> /\ req[c].priority = << >>
         /\ \A i, j \in DOMAIN store :
                i < j => store[i].created_at < store[j].created_at) =>
            LET T == Ascending(DOMAIN store)
                s == SkipOf(req[c])
            IN \A k \in DOMAIN resp[c].items :
                   resp[c].items[k].id = T[s + k]

\* C8: a list request with only a status parameter X (only a priority
\* parameter Y) returns only tasks whose status is X (priority is Y), and
\* total is the number of stored tasks with that status (priority).
C8_SingleFilter ==
    \A c \in Clients :
        (Done(c, {"LIST"}) /\ resp[c].code = HTTP_200_OK) =>
            /\ (req[c].status # << >> /\ req[c].priority = << >>) =>
                  /\ \A k \in DOMAIN resp[c].items :
                        resp[c].items[k].status = req[c].status[1]
                  /\ resp[c].total = Cardinality(
                        {i \in DOMAIN store : store[i].status = req[c].status[1]})
            /\ (req[c].priority # << >> /\ req[c].status = << >>) =>
                  /\ \A k \in DOMAIN resp[c].items :
                        resp[c].items[k].priority = req[c].priority[1]
                  /\ resp[c].total = Cardinality(
                        {i \in DOMAIN store : store[i].priority = req[c].priority[1]})

\* C8 witness: a list request with only a priority parameter returned the
\* one matching task of two stored tasks.
C8_Witness ==
    /\ Done(1, {"LIST"})
    /\ resp[1].code = HTTP_200_OK
    /\ req[1].priority # << >> /\ req[1].status = << >>
    /\ Cardinality(DOMAIN store) = 2
    /\ resp[1].total = 1
    /\ Len(resp[1].items) = 1

\* C9: a list request with both a status and a priority parameter returns
\* only tasks that match both, and total counts only the tasks matching
\* both.
C9_BothFilters ==
    \A c \in Clients :
        (/\ Done(c, {"LIST"})
         /\ resp[c].code = HTTP_200_OK
         /\ req[c].status # << >> /\ req[c].priority # << >>) =>
            /\ \A k \in DOMAIN resp[c].items :
                  /\ resp[c].items[k].status = req[c].status[1]
                  /\ resp[c].items[k].priority = req[c].priority[1]
            /\ resp[c].total = Cardinality(
                  {i \in DOMAIN store :
                      /\ store[i].status = req[c].status[1]
                      /\ store[i].priority = req[c].priority[1]})

\* C10: a list request with limit=0 is answered 200 with an empty page and
\* total the number of stored tasks (that match the filter); limit=1000 is
\* accepted and, with fewer than 1000 tasks and no skip, returns all of
\* them.
C10_LimitBoundaries ==
    \A c \in Clients :
        Done(c, {"LIST"}) =>
            /\ req[c].limit = <<0>> =>
                  /\ resp[c].code = HTTP_200_OK
                  /\ resp[c].items = << >>
                  /\ (req[c].status = << >> /\ req[c].priority = << >>) =>
                        resp[c].total = Cardinality(DOMAIN store)
            /\ (/\ req[c].limit = <<1000>>
                /\ req[c].skip = << >>
                /\ req[c].status = << >> /\ req[c].priority = << >>) =>
                  /\ resp[c].code = HTTP_200_OK
                  /\ Len(resp[c].items) = Cardinality(DOMAIN store)
                  /\ {resp[c].items[k].id : k \in DOMAIN resp[c].items} = DOMAIN store

\* ------------------------------------------------------------------- C11
\* every character of s is a space (true of the empty string)
AllSpaces(s) == \A k \in 1..Len(s) : s[k][1] = " "

\* the body of a create or update request breaks one of the rules of C11
C11_BadBody(r) ==
    \/ /\ "title" \in DOMAIN r.body
       /\ r.body.title # NoneStr
       /\ \/ AllSpaces(r.body.title)
          \/ StrLen(r.body.title) > TITLE_MAX_LENGTH
    \/ /\ "description" \in DOMAIN r.body
       /\ r.body.description # NoneStr
       /\ StrLen(r.body.description) > DESCRIPTION_MAX_LENGTH
    \/ /\ "status" \in DOMAIN r.body
       /\ r.body.status \notin {"pending", "in_progress", "completed", None}
    \/ /\ "priority" \in DOMAIN r.body
       /\ r.body.priority \notin {"low", "medium", "high", None}
    \/ /\ r.op = "POST"
       /\ "title" \notin DOMAIN r.body \/ r.body.title = NoneStr

\* C11: a create or update request whose title is empty, whitespace-only or
\* longer than 200 characters, whose description is longer than 2000
\* characters, or whose status or priority is not one of the three allowed
\* values, and a create request without a title (missing or null), is
\* answered 422 and leaves the tasks table as it was.
C11_InvalidRejected ==
    \A c \in Clients :
        (Done(c, {"POST", "PUT", "PATCH"}) /\ C11_BadBody(req[c])) =>
            /\ resp[c].code = 422
            /\ store = pre[c]

\* C11 witness: a PUT with a whitespace-only title on a stored task was
\* answered 422.
C11_Witness ==
    /\ Done(1, {"PUT"})
    /\ req[1].body = [title |-> TitleBlank]
    /\ req[1].task_id \in DOMAIN store
    /\ resp[1].code = 422
    /\ store = pre[1]

\* ------------------------------------------------------------------- C12
\* C12: every response to a request that fails validation has status 422
\* and a body with a "detail" field holding the validation errors, each of
\* them with a loc and a msg.
C12_DetailField ==
    \A c \in Clients :
        (pc[c] = "done" /\ resp[c].code = 422) =>
            /\ "detail" \in DOMAIN resp[c].content
            /\ resp[c].content.detail # {}
            /\ \A e \in resp[c].content.detail :
                  {"loc", "msg"} \subseteq DOMAIN e

\* ------------------------------------------------------------------- C13
\* t is s without its leading and trailing whitespace: t is the part of s
\* between a prefix and a suffix of spaces, and neither starts nor ends
\* with a space
IsStripOf(t, s) ==
    \E i \in 1..(Len(s) + 1), j \in 0..Len(s) :
        /\ t = SubSeq(s, i, j)
        /\ \A k \in 1..(i - 1) : s[k][1] = " "
        /\ \A k \in (j + 1)..Len(s) : s[k][1] = " "
        /\ t # << >> => (t[1][1] # " " /\ t[Len(t)][1] # " ")

\* a title of 1 to 200 characters that is not whitespace-only
C13_GoodTitle(body) ==
    /\ "title" \in DOMAIN body
    /\ body.title # NoneStr
    /\ StrLen(body.title) >= 1
    /\ StrLen(body.title) <= 200
    /\ ~AllSpaces(body.title)

\* C13: on create and on update the stored title is the submitted title
\* without its leading and trailing whitespace, and a title of 1 to 200
\* characters that is not whitespace-only is always accepted (no validation
\* error is reported for the title).
C13_TitleStripped ==
    \A c \in Clients :
        /\ (Done(c, {"POST"}) /\ resp[c].code = 201) =>
              \A i \in DOMAIN store \ DOMAIN pre[c] :
                  IsStripOf(store[i].title, req[c].body.title)
        /\ (Done(c, {"PUT", "PATCH"}) /\ resp[c].code = 200
               /\ "title" \in DOMAIN req[c].body
               /\ req[c].body.title # NoneStr) =>
              IsStripOf(store[req[c].task_id].title, req[c].body.title)
        /\ (Done(c, {"POST", "PUT", "PATCH"}) /\ C13_GoodTitle(req[c].body)) =>
              /\ resp[c].code = 422 =>
                    \A e \in resp[c].content.details : e.loc # <<"body", "title">>
              /\ req[c].body = [title |-> req[c].body.title] =>
                    resp[c].code \in {200, 201, 404}

\* C13 witness: a PUT whose title of 200 characters is 198 letters between
\* two spaces was answered 200 and the stored title is the 198 letters.
C13_Witness ==
    /\ Done(1, {"PUT"})
    /\ req[1].body = [title |-> TitlePaddedMax]
    /\ resp[1].code = 200
    /\ store[req[1].task_id].title = Str("a", 198)
    /\ pre[1][req[1].task_id].title # Str("a", 198)

C15_UpdateTimestamps ==
    \A c \in Clients :
        (Done(c, {"PUT", "PATCH"}) /\ resp[c].code = 200) =>
            LET id == req[c].task_id
            IN /\ id \in DOMAIN pre[c]
               /\ store[id].created_at = pre[c][id].created_at
               /\ resp[c].task.created_at = pre[c][id].created_at
               /\ store[id].updated_at = clock
               /\ resp[c].task.updated_at = clock
               /\ store[id].updated_at >= pre[c][id].updated_at

\* C15 witness: the update moved updated_at forward and created_at stayed
\* behind it.
C15_Witness ==
    /\ Done(1, {"PUT", "PATCH"})
    /\ resp[1].code = 200
    /\ store[req[1].task_id].updated_at > pre[1][req[1].task_id].updated_at
    /\ store[req[1].task_id].created_at < store[req[1].task_id].updated_at

\* ------------------------------------------------------------------- C16
\* C16: for every newly created task created_at and updated_at are both
\* set and are equal.
C16_CreatedEqualsUpdated ==
    \A c \in Clients :
        (Done(c, {"POST"}) /\ resp[c].code = 201) =>
            /\ {"created_at", "updated_at"} \subseteq DOMAIN resp[c].task
            /\ resp[c].task.created_at = resp[c].task.updated_at
            /\ \A i \in DOMAIN store \ DOMAIN pre[c] :
                  store[i].created_at = store[i].updated_at

C18_DeleteExactlyOne ==
    \A c \in Clients :
        /\ (Done(c, {"DELETE"}) /\ resp[c].code = 204) =>
              /\ req[c].task_id \in DOMAIN pre[c]
              /\ DOMAIN store = DOMAIN pre[c] \ {req[c].task_id}
              /\ \A i \in DOMAIN store : store[i] = pre[c][i]
              /\ Cardinality(DOMAIN store) = Cardinality(DOMAIN pre[c]) - 1
        /\ (Done(c, {"GET"}) /\ req[c].task_id \in DOMAIN store) =>
              /\ resp[c].code = 200
              /\ resp[c].task = store[req[c].task_id]
        /\ (Done(c, {"LIST"}) /\ resp[c].code = 200
               /\ req[c].status = << >> /\ req[c].priority = << >>) =>
              /\ resp[c].total = Cardinality(DOMAIN store)
              /\ store = << >> => resp[c].items = << >>

\* C18 witness: of two stored tasks one was deleted and the other is
\* stored as before.
C18_Witness ==
    /\ Done(1, {"DELETE"})
    /\ resp[1].code = 204
    /\ Cardinality(DOMAIN pre[1]) = 2
    /\ Cardinality(DOMAIN store) = 1
    /\ \A i \in DOMAIN store : store[i] = pre[1][i]

\* the unfiltered list after the only task was deleted: total 0, no items
C18_AllDeleted ==
    /\ Done(1, {"LIST"})
    /\ req[1].status = << >> /\ req[1].priority = << >>
    /\ resp[1].code = 200
    /\ deleted # {}
    /\ store = << >>
    /\ resp[1].total = 0
    /\ resp[1].items = << >>

\* ------------------------------------------------------------------- C19
\* every client has an answered PUT for the same task, which was stored
\* when each of them arrived, and no two of them submitted the same title
C19_AllPutsDone ==
    /\ \A c \in Clients :
          /\ Done(c, {"PUT"})
          /\ req[c].task_id = 1
          /\ 1 \in DOMAIN pre[c]
    /\ \A c, d \in Clients : c # d => req[c].body.title # req[d].body.title

\* C19: PUT requests that run concurrently against the same stored task,
\* each with a title of its own, are all answered 200, and the title
\* stored in the end is one of the submitted titles.
C19_ConcurrentPuts ==
    /\ \A c \in Clients :
          (Done(c, {"PUT"}) /\ req[c].task_id \in DOMAIN pre[c]) =>
              resp[c].code = 200
    /\ C19_AllPutsDone =>
          /\ 1 \in DOMAIN store
          /\ store[1].title \in {req[c].body.title : c \in Clients}

\* C19 witness: every PUT was answered 200 after all of them had loaded the
\* task as it was before any of them wrote it, and the stored title is the
\* one of the second client.
C19_Witness ==
    /\ C19_AllPutsDone
    /\ \A c \in Clients :
          /\ resp[c].code = 200
          /\ loc[c].loaded = pre[c][1]
          /\ pre[c] = pre[1]
    /\ store[1].title = req[2].body.title
    /\ store[1].title # pre[1][1].title

CountOf(level) ==
    Cardinality({k \in 1..Len(scan.findings) : scan.findings[k].severity = level})

\* C21: at every point of a scan run the sum of the four per-level
\* severity counters is at most the number of findings recorded so far, and
\* equals it exactly when every recorded finding has one of the four known
\* severities: each counter is the number of findings of its level, so a
\* finding with an unrecognised severity adds to the total and to none of
\* the four counters.
C21_CountersBelowTotal ==
    LET levels == {"critical", "high", "moderate", "low"}
        counts == scan.severity_counts
        sum == counts["critical"] + counts["high"] + counts["moderate"] + counts["low"]
        total == Len(scan.findings)
    IN /\ \A level \in levels : counts[level] = CountOf(level)
       /\ sum <= total
       /\ sum = total <=>
             \A k \in 1..total : scan.findings[k].severity \in levels

\* C21 witness: two findings are recorded, the first of severity high and
\* the second of a severity that is none of the four levels; the counters
\* add up to 1.
C21_Witness ==
    /\ Len(scan.findings) = 2
    /\ scan.findings[1].severity = "high"
    /\ scan.findings[2].severity \notin {"critical", "high", "moderate", "low"}
    /\ scan.severity_counts["high"] = 1
    /\ scan.severity_counts["critical"] + scan.severity_counts["moderate"]
         + scan.severity_counts["low"] = 0

\* ------------------------------------------------------------------- C22
\* the suppression conditions of C22 for a handled match, stated on the
\* tokens of its line and on its captured value
C22_Discarded(entry) ==
    LET line == entry.match.line
    IN \/ \E i \in 1..Len(line) :
             /\ line[i] \in {"#", "//", "/*", "*", "<!--"}
             /\ \A j \in 1..(i - 1) : line[j] = " "
       \/ /\ \E i \in 1..Len(line) :
                line[i] \in {"example", "test", "dummy", "fake", "sample", "placeholder"}
          /\ \E i \in 1..Len(line) :
                line[i] \in {"password", "secret", "key", "token"}
       \/ Len(entry.match.value) <= 3

C22_Kept(entry) == ~C22_Discarded(entry)

\* C22: a rule match produces a finding if and only if none of the
\* suppression conditions holds ((a) comment line, (b) placeholder keyword
\* together with a secret-related keyword, (c) captured value of at most 3
\* characters): the findings are, in order, the handled matches that no
\* condition discards; a file whose matches are all on comment lines has
\* no finding.
C22_FindingIffNotSuppressed ==
    LET kept == SelectSeq(scan.seen, C22_Kept)
    IN /\ Len(scan.findings) = Len(kept)
       /\ \A k \in 1..Len(kept) :
             /\ scan.findings[k].file_path = kept[k].path
             /\ scan.findings[k].line_number = kept[k].match.line_number
             /\ scan.findings[k].label = kept[k].match.label
             /\ scan.findings[k].severity = kept[k].match.severity
       /\ \A k \in 1..Len(scan.findings) :
             scan.findings[k].file_path # "comments.py"

\* C22 witness: the file of comment lines and the file with the placeholder
\* line, the placeholder-only line and the 3-character value were scanned;
\* the only finding is the one of the placeholder-only line.
C22_Witness ==
    /\ scan.phase = "reported"
    /\ Len(scan.candidates) = 2
    /\ scan.candidates[1].path = "comments.py"
    /\ scan.candidates[2].path = "config.js"
    /\ Len(scan.seen) = 5
    /\ Len(scan.findings) = 1
    /\ scan.findings[1].label = "Bearer Token"
    /\ scan.findings[1].code_snippet = MatchPlaceholderOnly.line

\* ------------------------------------------------------------------- C23
\* the next candidate file is one whose read or scan fails
C23_NextFileFails ==
    /\ scan.phase = "walking"
    /\ scan.files # << >>
    /\ Head(scan.files).fails_at # << >>

\* at the end of the walk every candidate was handled: a file that failed
\* has its warning, every match of a file that did not fail was handled
C23_AllHandled ==
    scan.phase = "reported" =>
        /\ scan.files = << >>
        /\ \A k \in 1..Len(scan.candidates) :
              LET file == scan.candidates[k]
              IN IF file.fails_at # << >>
                 THEN \E w \in 1..Len(scan.warnings) : scan.warnings[w] = file.path
                 ELSE \A i \in 1..Len(file.matches) :
                        \E j \in 1..Len(scan.seen) :
                            scan.seen[j] = [path |-> file.path, match |-> file.matches[i]]

\* C23: a read or scan failure on one file does not halt the run: the step
\* that meets the failure adds a warning naming the file, keeps the
\* findings recorded before it as they are, and leaves every remaining
\* candidate to be scanned, without exiting; the run reports only after
\* every candidate was handled.
C23_FailureDoesNotHalt ==
    /\ [][C23_NextFileFails =>
            /\ scan'.phase = "walking"
            /\ scan'.exit_code = << >>
            /\ scan'.errors = scan.errors
            /\ scan'.warnings = Append(scan.warnings, Head(scan.files).path)
            /\ scan'.files = Tail(scan.files)
            /\ Len(scan'.findings) >= Len(scan.findings)
            /\ SubSeq(scan'.findings, 1, Len(scan.findings)) = scan.findings]_vars
    /\ []C23_AllHandled

\* C23 witness: the scan of the first file failed after its first match,
\* the second file was scanned all the same; the run reported one warning
\* and the findings of both files.
C23_Witness ==
    /\ scan.phase = "reported"
    /\ Len(scan.candidates) = 2
    /\ scan.candidates[1].path = "broken.py"
    /\ scan.candidates[2].path = "settings.py"
    /\ scan.warnings = <<"broken.py">>
    /\ Len(scan.findings) = 2
    /\ scan.findings[1].file_path = "broken.py"
    /\ scan.findings[2].file_path = "settings.py"
    /\ scan.exit_code = <<0>>

\* ------------------------------------------------------------------- C24
\* C24: when the scan root path is invalid the run never walks a file: it
\* is either about to check the root or has exited, with the error
\* reported and a nonzero status; files_scanned is 0, no match was handled
\* and no finding or warning is recorded.
C24_InvalidRootIsFatal ==
    ~scan.root_valid =>
        /\ scan.phase \in {"start", "exited"}
        /\ scan.files_scanned = 0
        /\ scan.seen = << >>
        /\ scan.findings = << >>
        /\ scan.warnings = << >>
        /\ \A level \in DOMAIN scan.severity_counts : scan.severity_counts[level] = 0
        /\ scan.phase = "exited" =>
              /\ scan.errors # << >>
              /\ Len(scan.exit_code) = 1
              /\ scan.exit_code[1] # 0
        /\ scan.phase = "start" => scan.exit_code = << >>

\* C24 witness: the run with the invalid root has exited with status 1
\* and the path error.
C24_Witness ==
    /\ ~scan.root_valid
    /\ scan.phase = "exited"
    /\ scan.errors = <<"PathError">>
    /\ scan.exit_code = <<1>>
    /\ scan.files_scanned = 0

\* ------------------------------------------------------------------- C25
\* the invocation ended in one of the ways C25 lists as unavailable
C25_Unavailable(outcome) ==
    \/ outcome.kind = "not_found"
    \/ outcome.kind = "timeout"
    \/ /\ outcome.kind = "exit"
       /\ \/ ~outcome.parsed
          \/ outcome.code \notin {0, 1}

C25_Guidance == \E k \in 1..Len(scan.messages) : scan.messages[k] = "install a tool"

\* C25: the adapters are tried in their order; an adapter that is not
\* found, times out, returns unparseable output or exits with a code
\* outside {0, 1} is unavailable and the next adapter is tried; findings
\* come only from an adapter that ran; the install guidance is emitted only
\* after every adapter was tried and found unavailable, and then the run
\* reports zero findings, no error and exit code 0.
C25_AdapterFallback ==
    LET n == Len(scan.tried)
    IN /\ n <= Len(Adapters)
       /\ \A k \in 1..n : scan.tried[k].adapter = Adapters[k]
       /\ \A k \in 1..(n - 1) : C25_Unavailable(scan.tried[k].outcome)
       /\ scan.phase = "parsing" => ~C25_Unavailable(scan.tried[n].outcome)
       /\ scan.findings # << >> =>
             /\ n >= 1
             /\ ~C25_Unavailable(scan.tried[n].outcome)
             /\ \A k \in 1..Len(scan.findings) :
                   scan.findings[k].file_path = scan.tried[n].adapter
       /\ scan.phase = "reported" =>
             \/ n >= 1 /\ ~C25_Unavailable(scan.tried[n].outcome)
             \/ n = Len(Adapters)
       /\ C25_Guidance =>
             /\ n = Len(Adapters)
             /\ \A k \in 1..n : C25_Unavailable(scan.tried[k].outcome)
             /\ scan.findings = << >>
             /\ scan.errors = << >>
             /\ scan.exit_code = <<0>>
       /\ (scan.phase = "reported"
             /\ \A k \in 1..n : C25_Unavailable(scan.tried[k].outcome)) =>
             C25_Guidance

\* C25 witness: the first tool was not found, the second exited with code
\* 2; the guidance was emitted, with no finding.
C25_Witness ==
    /\ scan.phase = "reported"
    /\ Len(scan.tried) = 2
    /\ scan.tried[1].outcome.kind = "not_found"
    /\ scan.tried[2].outcome.kind = "exit"
    /\ scan.tried[2].outcome.code = 2
    /\ C25_Guidance
    /\ scan.findings = << >>

\* the first tool timed out and the findings are those of the second
C25_FallbackUsed ==
    /\ scan.phase = "reported"
    /\ Len(scan.tried) = 2
    /\ scan.tried[1].outcome.kind = "timeout"
    /\ Len(scan.findings) = 2
    /\ scan.findings[1].file_path = "safety"
    /\ ~C25_Guidance

\* ------------------------------------------------------------------- C26
\* C26: after any sequence of create, update and delete requests every
\* stored task has a non-null title of 1 to 200 characters without leading
\* or trailing whitespace (so not whitespace-only), a description that is
\* null or of at most 2000 characters, a status in {pending, in_progress,
\* completed} and a priority in {low, medium, high}.
C26_StoredFieldsValid ==
    \A i \in DOMAIN store :
        LET t == store[i]
        IN /\ t.title # NoneStr
           /\ StrLen(t.title) >= 1
           /\ StrLen(t.title) <= 200
           /\ t.title[1][1] # " "
           /\ t.title[Len(t.title)][1] # " "
           /\ ~AllSpaces(t.title)
           /\ t.description = NoneStr \/ StrLen(t.description) <= 2000
           /\ t.status \in {"pending", "in_progress", "completed"}
           /\ t.priority \in {"low", "medium", "high"}

\* C26 witness: a task created with the padded title of 200 characters
\* holds its 198 letters, and an update has given it the description of
\* 2000 characters.
C26_Witness ==
    /\ Done(1, {"PUT", "PATCH"})
    /\ resp[1].code = 200
    /\ req[1].body = [description |-> DescMax]
    /\ store[req[1].task_id].title = Str("a", 198)
    /\ store[req[1].task_id].description = DescMax

\* ------------------------------------------------------------------- C27
\* the body sets title, status or priority explicitly to null
C27_NullField(body) ==
    \/ "title" \in DOMAIN body /\ body.title = NoneStr
    \/ "status" \in DOMAIN body /\ body.status = None
    \/ "priority" \in DOMAIN body /\ body.priority = None

\* C27: a PUT or PATCH on a stored task whose body sets title, status or
\* priority explicitly to null is answered 200 or 422, never 500, and the
\* stored task still has a non-null title, status and priority.
C27_NullNeverServerError ==
    \A c \in Clients :
        (/\ Done(c, {"PUT", "PATCH"})
         /\ req[c].task_id \in DOMAIN pre[c]
         /\ C27_NullField(req[c].body)) =>
            /\ resp[c].code \in {200, 422}
            /\ req[c].task_id \in DOMAIN store
            /\ store[req[c].task_id].title # NoneStr
            /\ store[req[c].task_id].status # None
            /\ store[req[c].task_id].priority # None

\* ------------------------------------------------------------------- C28
\* C28: of the concurrent DELETE requests on one existing task id exactly
\* one is answered 204 and every other one 404.
C28_ExactlyOneDeletes ==
    \A c, d \in Clients :
        (/\ c # d
         /\ Done(c, {"DELETE"})
         /\ Done(d, {"DELETE"})
         /\ req[c].task_id = req[d].task_id
         /\ req[c].task_id \in DOMAIN pre[c]
         /\ req[d].task_id \in DOMAIN pre[d]) =>
            \/ resp[c].code = 204 /\ resp[d].code = 404
            \/ resp[c].code = 404 /\ resp[d].code = 204

\* ------------------------------------------------------------------- C29
\* C29: in every list response the number of returned items never exceeds
\* total, also when other clients' creates or deletes commit between the
\* page query and the count query.
C29_ItemsWithinTotal ==
    \A c \in Clients :
        (Done(c, {"LIST"}) /\ resp[c].code = 200) =>
            Len(resp[c].items) <= resp[c].total

\* ------------------------------------------------------------------- C30
C30_Ordered ==
    \A i \in DOMAIN store : store[i].updated_at >= store[i].created_at

C30_CreatedKept ==
    \A i \in DOMAIN store \cap DOMAIN store' :
        store'[i].created_at = store[i].created_at

\* C30: under a non-decreasing clock every stored task has
\* updated_at >= created_at in every reachable state, and no step changes
\* the created_at of a stored task.
C30_TimestampsOrdered == []C30_Ordered /\ [][C30_CreatedKept]_vars

\* C30 witness: an update at a later clock value than the creation has
\* moved updated_at and left created_at where it was.
C30_Witness ==
    /\ Done(1, {"PUT", "PATCH"})
    /\ resp[1].code = 200
    /\ store[req[1].task_id].created_at = pre[1][req[1].task_id].created_at
    /\ store[req[1].task_id].updated_at > pre[1][req[1].task_id].updated_at
    /\ store[req[1].task_id].updated_at > store[req[1].task_id].created_at

====
